---- MODULE Spec2Model ----
(***************************************************************************)
(* Model of src/src/start-express-app.ts: createNestAppModule and the      *)
(* bootstrap sequence startExpressApp (default options, middleware,        *)
(* controller module, hooks, Nest application, listen).                    *)
(***************************************************************************)
EXTENDS Integers, Sequences, FiniteSets, TLC

(* ---------------------------------------------------------------- bounds *)
MaxControllers == 3     \* longest list of discovered controllers
MaxErrors == 1          \* 'error' events the server emits in one run
MaxRequests == 1        \* requests served after the server listens

(* ------------------------------------------------------------- JS values *)
Undefined == [type |-> "undefined", n |-> 0, s |-> ""]
Num(k) == [type |-> "number", n |-> k, s |-> ""]
Str(t) == [type |-> "string", n |-> 0, s |-> t]
Bool(b) == [type |-> "boolean", n |-> IF b THEN 1 ELSE 0, s |-> ""]
Fn(name) == [type |-> "function", n |-> 0, s |-> name]

\* JavaScript truthiness, as used by || and if (...)
Truthy(v) ==
    CASE v.type = "undefined" -> FALSE
      [] v.type = "number" -> v.n # 0
      [] v.type = "string" -> v.s # ""
      [] v.type = "boolean" -> v.n = 1
      [] OTHER -> TRUE

\* a || b
Or(a, b) == IF Truthy(a) THEN a ELSE b

\* `${v}` : template-literal conversion of a port value
TemplateString(v) ==
    CASE v.type = "number" -> ToString(v.n)
      [] v.type = "string" -> v.s
      [] OTHER -> v.type

(* ---------------------------------------------------------------- inputs *)
ControllerNames == {"A", "B", "C"}
\* rank of a name in the order Array.prototype.sort() uses (code units)
NameRank == [nm \in ControllerNames |->
                CASE nm = "A" -> 1 [] nm = "B" -> 2 [] OTHER -> 3]

PortInputs == {Undefined, Num(0), Num(80)}
EnvPortInputs == {Undefined, Str("8080")}
LogLevelInputs == {Undefined, Bool(FALSE), Fn("custom")}
ValidationInputs == {Undefined, Str("skipMissingProperties")}
DefaultPort == 5000
DefaultLogLevel == Fn("default")
DefaultValidation == Str("whitelist,forbidNonWhitelisted")

ControllerLists == UNION {[1..k -> ControllerNames] : k \in 0..MaxControllers}

(* ------------------------------------------- values of the request logger *)
\* strings are lists of characters, numbers are decimals num / 10^exp
LValue(type, c, num, exp, pairs) ==
    [type |-> type, c |-> c, num |-> num, exp |-> exp, pairs |-> pairs]
LUndefined == LValue("undefined", <<>>, 0, 0, <<>>)
LNull == LValue("null", <<>>, 0, 0, <<>>)
LNaN == LValue("NaN", <<>>, 0, 0, <<>>)
LTrue == LValue("boolean", <<>>, 1, 0, <<>>)
LStr(c) == LValue("string", c, 0, 0, <<>>)
LNumber(num, exp) == LValue("number", <<>>, num, exp, <<>>)
\* an object: its own properties as [key, value] in insertion order
LObject(pairs) == LValue("object", <<>>, 0, 0, pairs)

\* the tokens of a line: JSON punctuation and literals, other text, newline
Token(k, v) == [k |-> k, v |-> v]
Punct(c) == Token("punct", <<c>>)
Text(c) == Token("text", c)
NL == Token("nl", <<"\n">>)

NoTokens == [method |-> LUndefined, url |-> LUndefined, status |-> LUndefined,
             responseTime |-> LUndefined, contentLength |-> LUndefined,
             requestId |-> LUndefined]

\* morgan's tokens of a finished request; response-time and content-length
\* and the x-request-id header may be missing
TokenInputs ==
    [method : {LStr(<<"G", "E", "T">>)},
     url : {LStr(<<"/", "x">>)},
     status : {LStr(<<"2", "0", "0">>)},
     responseTime : {LStr(<<"1", "5", ".", "2", "3", "4">>), LStr(<<"2", ".", "5">>), LStr(<<"7">>), LUndefined},
     contentLength : {LStr(<<"4", "2">>), LUndefined},
     requestId : {LStr(<<"r", "1">>), LUndefined}]

\* lines a caller's own format function returns
RawLines ==
    {<<Text(<<"h", "e", "l", "l", "o">>)>>,
     <<Text(<<"h", "e", "l", "l", "o">>), NL, Text(<<"b", "y", "e">>)>>,
     <<Token("number", <<"4", "2">>)>>,
     <<Token("null", <<"n", "u", "l", "l">>)>>,
     <<Token("string", <<"h", "e", "l", "l", "o">>)>>,
     <<Punct("{"), Token("string", <<"p", "a", "t", "h">>), Punct(":"),
       Token("string", <<"/", "x">>), Punct("}")>>,
     <<Punct("{"), Token("string", <<"p", "a", "t", "h">>), Punct(":")>>}

VARIABLES
    supplied,       \* the options object as the caller passed it
    options,        \* options.http, mutated in place by the bootstrap
    envPORT,        \* process.env.PORT
    pc,             \* position of startExpressApp
    stack,          \* middleware installed on expressApp, in order
    controllers,    \* result of importClassesFromDirectories
    nestAppModule,  \* controllers registered in AppModule
    server,         \* state of the http server
    handlers,       \* 'error' and 'listening' handlers registered
    listenPromise,  \* promise created by listen()
    before,         \* beforeRoutingControllerLaunchHook run
    after,          \* afterRoutingControllerLaunchHook run
    nestApp,        \* state of the Nest application
    outcome,        \* promise returned by startExpressApp
    trace,          \* steps taken so far, in order
    errors,         \* 'error' events the server has emitted, in order
    req,            \* the request being served
    nreq,           \* requests received so far
    formatLogInJSON,\* global.n9NodeRoutingData.formatLogInJSON
    enableRequestId,\* options.enableRequestId
    tok,            \* morgan tokens of the request being logged
    line,           \* the line morgan hands to stream.write
    info,           \* calls of options.log.info, in order
    reads,          \* values of the flag read for the last line
    logPc,          \* position of morgan for the last request
    nlog            \* requests logged so far

logVars == <<formatLogInJSON, enableRequestId, tok, line, info, reads, logPc,
             nlog>>

vars == <<supplied, options, envPORT, pc, stack, controllers, nestAppModule,
          server, handlers, listenPromise, before, after, nestApp, outcome,
          trace, errors, req, nreq, logVars>>

Pending == [state |-> "pending", value |-> Undefined]
Fulfilled(v) == [state |-> "fulfilled", value |-> v]
Rejected(e) == [state |-> "rejected", value |-> e]

NoRequest == [state |-> "none", pos |-> 0, ran |-> <<>>]
Idle == [state |-> "idle", error |-> Undefined]

NoModule == [defined |-> FALSE, controllers |-> <<>>]

Init ==
    /\ supplied \in [port : PortInputs, logLevel : LogLevelInputs,
                     validation : ValidationInputs, preventListen : BOOLEAN,
                     beforeRoutingControllerLaunchHook : BOOLEAN,
                     afterRoutingControllerLaunchHook : BOOLEAN]
    /\ options = supplied
    /\ envPORT \in EnvPortInputs
    /\ pc = "start"
    /\ stack = <<>>
    /\ controllers = <<>>
    /\ nestAppModule = NoModule
    /\ server = "none"
    /\ handlers = FALSE
    /\ listenPromise = Pending
    /\ before = Idle
    /\ after = Idle
    /\ nestApp = "none"
    /\ outcome = Pending
    /\ trace = <<>>
    /\ errors = <<>>
    /\ req = NoRequest
    /\ nreq = 0
    /\ formatLogInJSON = FALSE
    /\ enableRequestId = FALSE
    /\ tok = NoTokens
    /\ line = <<>>
    /\ info = <<>>
    /\ reads = <<>>
    /\ logPc = "idle"
    /\ nlog = 0

(* ------------------------------------------------------- default options *)
\* options.http.port || process.env.PORT || 5000
ResolvePort(port, env) == Or(Or(port, env), Num(DefaultPort))

ResolveLogLevelNoDefault(logLevel) == logLevel

\* typeof logLevel !== 'undefined' ? logLevel : <default formatter>
ResolveLogLevel(logLevel) ==
    IF logLevel.type # "undefined" THEN logLevel ELSE DefaultLogLevel

DefaultOptions ==
    /\ pc = "start"
    /\ options' = [options EXCEPT
                     !.port = ResolvePort(options.port, envPORT),
                     !.logLevel = ResolveLogLevel(options.logLevel),
                     !.validation = DefaultValidation]
    /\ pc' = "middleware"
    /\ trace' = Append(trace, "defaults")
    /\ UNCHANGED <<supplied, envPORT, stack, controllers, nestAppModule,
                   server, handlers, listenPromise, before, after, nestApp,
                   outcome, errors, req, nreq, logVars>>

(* ------------------------------------------------------------ middleware *)
\* expressApp.use(...) calls, in program order; morgan only if logLevel is truthy
MiddlewareStackLoggerFirst(logLevel) ==
    (IF Truthy(logLevel) THEN <<"morgan">> ELSE <<>>)
        \o <<"setRequestContext", "helmet", "SessionLoaderInterceptor">>

MiddlewareStack(logLevel) ==
    <<"setRequestContext", "helmet", "SessionLoaderInterceptor">>
        \o (IF Truthy(logLevel) THEN <<"morgan">> ELSE <<>>)

InstallMiddleware ==
    /\ pc = "middleware"
    /\ stack' = MiddlewareStack(options.logLevel)
    /\ pc' = "module"
    /\ trace' = Append(trace, "middleware")
    /\ UNCHANGED <<supplied, options, envPORT, controllers, nestAppModule,
                   server, handlers, listenPromise, before, after, nestApp,
                   outcome, errors, req, nreq, logVars>>

(* --------------------------------------------------- createNestAppModule *)
\* _.uniqBy(controllers, 'name'): the first occurrence of every name
RECURSIVE uniqBy(_)
uniqBy(cs) ==
    IF cs = <<>> THEN <<>>
    ELSE LET front == uniqBy(SubSeq(cs, 1, Len(cs) - 1))
             last == cs[Len(cs)]
         IN IF \E i \in 1..Len(front) : front[i] = last
            THEN front ELSE Append(front, last)

\* insertion of one name into a sorted list
RECURSIVE InsertSorted(_, _)
InsertSorted(srt, nm) ==
    IF srt = <<>> THEN <<nm>>
    ELSE IF NameRank[nm] < NameRank[Head(srt)] THEN <<nm>> \o srt
    ELSE <<Head(srt)>> \o InsertSorted(Tail(srt), nm)

\* _.map(controllers, 'name').sort()
RECURSIVE sorted(_)
sorted(cs) ==
    IF cs = <<>> THEN <<>>
    ELSE InsertSorted(sorted(SubSeq(cs, 1, Len(cs) - 1)), cs[Len(cs)])

\* Set.prototype.add, the set kept in insertion order
SetAdd(list, nm) ==
    IF \E i \in 1..Len(list) : list[i] = nm THEN list ELSE Append(list, nm)

\* for (i = 0; i < sorted.length - 1; i++) if (sorted[i + 1] == sorted[i]) add
RECURSIVE AdjacentScan(_, _, _)
AdjacentScan(names, i, acc) ==
    IF i > Len(names) - 1 THEN acc
    ELSE AdjacentScan(names, i + 1,
                      IF names[i + 1] = names[i] THEN SetAdd(acc, names[i])
                      ELSE acc)

controllerDuplicatedNamesUnsorted(cs) == AdjacentScan(cs, 1, <<>>)

\* Array.from(controllerDuplicatedNames)
controllerDuplicatedNames(cs) == AdjacentScan(sorted(cs), 1, <<>>)

\* Module({controllers, imports})(AppModule)
AppModuleSorted(cs) == [defined |-> TRUE, controllers |-> sorted(cs)]

AppModule(cs) == [defined |-> TRUE, controllers |-> cs]

N9Error(name, status, dup) ==
    [kind |-> "N9Error", message |-> <<name>>, status |-> status,
     controllerDuplicatedNames |-> dup]

CreateNestAppModuleNoThrow ==
    /\ pc = "module"
    /\ \E cs \in ControllerLists :
         /\ controllers' = cs
         /\ nestAppModule' = AppModule(uniqBy(cs))
         /\ pc' = "routes"
         /\ trace' = Append(trace, "module")
         /\ UNCHANGED outcome
    /\ UNCHANGED <<supplied, options, envPORT, stack, server, handlers,
                   listenPromise, before, after, nestApp, errors, req, nreq, logVars>>

CreateNestAppModule ==
    /\ pc = "module"
    /\ \E cs \in ControllerLists :
         /\ controllers' = cs
         /\ IF Len(cs) # Len(uniqBy(cs))
            THEN /\ outcome' = Rejected(N9Error("duplicated-controller", 400,
                                                controllerDuplicatedNames(cs)))
                 /\ pc' = "done"
                 /\ trace' = Append(trace, "throwDuplicated")
                 /\ UNCHANGED nestAppModule
            ELSE /\ nestAppModule' = AppModule(cs)
                 /\ pc' = "routes"
                 /\ trace' = Append(trace, "module")
                 /\ UNCHANGED outcome
    /\ UNCHANGED <<supplied, options, envPORT, stack, server, handlers,
                   listenPromise, before, after, nestApp, errors, req, nreq, logVars>>

\* await bindSpecificRoutes(expressApp, options, nestAppModule)
BindSpecificRoutes ==
    /\ pc = "routes"
    /\ pc' = "server"
    /\ trace' = Append(trace, "routes")
    /\ UNCHANGED <<supplied, options, envPORT, stack, controllers,
                   nestAppModule, server, handlers, listenPromise, before,
                   after, nestApp, outcome, errors, req, nreq, logVars>>

\* const server = createServer(expressApp)
CreateServer ==
    /\ pc = "server"
    /\ server' = "Unbound"
    /\ pc' = "before"
    /\ trace' = Append(trace, "createServer")
    /\ UNCHANGED <<supplied, options, envPORT, stack, controllers,
                   nestAppModule, handlers, listenPromise, before, after,
                   nestApp, outcome, errors, req, nreq, logVars>>

(* ----------------------------------------------------------------- hooks *)
HookErrors == {[kind |-> "HookError", message |-> <<"boom">>],
               [kind |-> "HookError", message |-> <<"denied">>]}

\* the frame of a step of startExpressApp that touches only pc, trace, outcome
\* and the variable it names
BootFrame == <<supplied, options, envPORT, stack, controllers, nestAppModule,
               errors, req, nreq, logVars>>

\* if (beforeRoutingControllerLaunchHook) await beforeRoutingControllerLaunchHook(...)
\* the hook is called: it returns a promise or throws
CallBeforeHookNoAwait ==
    /\ pc = "before"
    /\ IF ~options.beforeRoutingControllerLaunchHook
       THEN /\ pc' = "create"
            /\ UNCHANGED <<before, outcome, trace>>
       ELSE \/ /\ before' = [state |-> "running", error |-> Undefined]
               /\ pc' = "create"
               /\ trace' = Append(trace, "beforeHookStart")
               /\ UNCHANGED outcome
            \/ \E e \in HookErrors :
                 /\ before' = [state |-> "failed", error |-> e]
                 /\ outcome' = Rejected(e)
                 /\ pc' = "done"
                 /\ trace' = trace \o <<"beforeHookStart", "beforeHookEnd">>
    /\ UNCHANGED <<BootFrame, server, handlers, listenPromise, after, nestApp>>

CallBeforeHook ==
    /\ pc = "before"
    /\ IF ~options.beforeRoutingControllerLaunchHook
       THEN /\ pc' = "create"
            /\ UNCHANGED <<before, outcome, trace>>
       ELSE \/ /\ before' = [state |-> "running", error |-> Undefined]
               /\ pc' = "awaitBefore"
               /\ trace' = Append(trace, "beforeHookStart")
               /\ UNCHANGED outcome
            \/ \E e \in HookErrors :
                 /\ before' = [state |-> "failed", error |-> e]
                 /\ outcome' = Rejected(e)
                 /\ pc' = "done"
                 /\ trace' = trace \o <<"beforeHookStart", "beforeHookEnd">>
    /\ UNCHANGED <<BootFrame, server, handlers, listenPromise, after, nestApp>>

\* the promise the hook returned settles
BeforeHookSettles ==
    /\ before.state = "running"
    /\ \/ before' = [state |-> "done", error |-> Undefined]
       \/ \E e \in HookErrors : before' = [state |-> "failed", error |-> e]
    /\ trace' = Append(trace, "beforeHookEnd")
    /\ UNCHANGED <<BootFrame, pc, server, handlers, listenPromise, after,
                   nestApp, outcome>>

\* the await on the hook's promise resumes, or rethrows the rejection
AwaitBeforeHookCaught ==
    /\ pc = "awaitBefore"
    /\ before.state \in {"done", "failed"}
    /\ pc' = "create"
    /\ UNCHANGED <<BootFrame, server, handlers, listenPromise, before, after,
                   nestApp, outcome, trace>>

AwaitBeforeHook ==
    /\ pc = "awaitBefore"
    /\ before.state \in {"done", "failed"}
    /\ IF before.state = "done"
       THEN pc' = "create" /\ UNCHANGED outcome
       ELSE pc' = "done" /\ outcome' = Rejected(before.error)
    /\ UNCHANGED <<BootFrame, server, handlers, listenPromise, before, after,
                   nestApp, trace>>

(* ------------------------------------------------------- Nest application *)
\* const nestApp = await NestFactory.create(nestAppModule, adapter, {...})
NestFactoryCreate ==
    /\ pc = "create"
    /\ nestApp' = "creating"
    /\ pc' = "awaitCreate"
    /\ trace' = Append(trace, "nestCreate")
    /\ UNCHANGED <<BootFrame, server, handlers, listenPromise, before, after,
                   outcome>>

ConfigureNestAppFilterAfterInit ==
    /\ pc = "awaitCreate"
    /\ nestApp' = "initializing"
    /\ pc' = "awaitInit"
    /\ trace' = trace \o <<"nestCreated", "useGlobalPipes", "nestInit",
                           "useGlobalFilters">>
    /\ UNCHANGED <<BootFrame, server, handlers, listenPromise, before, after,
                   outcome>>

\* creation done; useGlobalFilters, useGlobalPipes, then nestApp.init() is called
ConfigureNestApp ==
    /\ pc = "awaitCreate"
    /\ nestApp' = "initializing"
    /\ pc' = "awaitInit"
    /\ trace' = trace \o <<"nestCreated", "useGlobalFilters",
                           "useGlobalPipes", "nestInit">>
    /\ UNCHANGED <<BootFrame, server, handlers, listenPromise, before, after,
                   outcome>>

\* await nestApp.init() resumes
NestInitialized ==
    /\ pc = "awaitInit"
    /\ nestApp' = "initialized"
    /\ pc' = "after"
    /\ trace' = Append(trace, "nestInitDone")
    /\ UNCHANGED <<BootFrame, server, handlers, listenPromise, before, after,
                   outcome>>

CallAfterHookNoAwait ==
    /\ pc = "after"
    /\ IF ~options.afterRoutingControllerLaunchHook
       THEN /\ pc' = "listen"
            /\ UNCHANGED <<after, outcome, trace>>
       ELSE \/ /\ after' = [state |-> "running", error |-> Undefined]
               /\ pc' = "listen"
               /\ trace' = Append(trace, "afterHookStart")
               /\ UNCHANGED outcome
            \/ \E e \in HookErrors :
                 /\ after' = [state |-> "failed", error |-> e]
                 /\ outcome' = Rejected(e)
                 /\ pc' = "done"
                 /\ trace' = trace \o <<"afterHookStart", "afterHookEnd">>
    /\ UNCHANGED <<BootFrame, server, handlers, listenPromise, before, nestApp>>

\* if (afterRoutingControllerLaunchHook) await afterRoutingControllerLaunchHook(...)
CallAfterHook ==
    /\ pc = "after"
    /\ IF ~options.afterRoutingControllerLaunchHook
       THEN /\ pc' = "listen"
            /\ UNCHANGED <<after, outcome, trace>>
       ELSE \/ /\ after' = [state |-> "running", error |-> Undefined]
               /\ pc' = "awaitAfter"
               /\ trace' = Append(trace, "afterHookStart")
               /\ UNCHANGED outcome
            \/ \E e \in HookErrors :
                 /\ after' = [state |-> "failed", error |-> e]
                 /\ outcome' = Rejected(e)
                 /\ pc' = "done"
                 /\ trace' = trace \o <<"afterHookStart", "afterHookEnd">>
    /\ UNCHANGED <<BootFrame, server, handlers, listenPromise, before, nestApp>>

AfterHookSettles ==
    /\ after.state = "running"
    /\ \/ after' = [state |-> "done", error |-> Undefined]
       \/ \E e \in HookErrors : after' = [state |-> "failed", error |-> e]
    /\ trace' = Append(trace, "afterHookEnd")
    /\ UNCHANGED <<BootFrame, pc, server, handlers, listenPromise, before,
                   nestApp, outcome>>

AwaitAfterHook ==
    /\ pc = "awaitAfter"
    /\ after.state \in {"done", "failed"}
    /\ IF after.state = "done"
       THEN pc' = "listen" /\ UNCHANGED outcome
       ELSE pc' = "done" /\ outcome' = Rejected(after.error)
    /\ UNCHANGED <<BootFrame, server, handlers, listenPromise, before, after,
                   nestApp, trace>>

(* ---------------------------------------------------------------- listen *)
Syscalls == {"listen", "getaddrinfo"}
Codes == {"EACCES", "EADDRINUSE", "ENOTFOUND"}

\* an 'error' event's argument; ref tells the events of one run apart
ErrnoException(syscall, code, ref) ==
    [kind |-> "ErrnoException", message |-> <<syscall, " ", code>>,
     syscall |-> syscall, code |-> code, ref |-> ref]

\* new Error(message)
Error(message) == [kind |-> "Error", message |-> message]

analyzeErrorAnySyscall(error, port) ==
    CASE error.code = "EACCES" ->
           Error(<<"Port ", TemplateString(port), " requires elevated privileges">>)
      [] error.code = "EADDRINUSE" ->
           Error(<<"Port ", TemplateString(port), " is already in use">>)
      [] OTHER -> error

analyzeErrorSwapped(error, port) ==
    IF error.syscall # "listen" THEN error
    ELSE CASE error.code = "EADDRINUSE" ->
                Error(<<"Port ", TemplateString(port), " requires elevated privileges">>)
           [] error.code = "EACCES" ->
                Error(<<"Port ", TemplateString(port), " is already in use">>)
           [] OTHER -> error

analyzeError(error, port) ==
    IF error.syscall # "listen" THEN error
    ELSE CASE error.code = "EACCES" ->
                Error(<<"Port ", TemplateString(port), " requires elevated privileges">>)
           [] error.code = "EADDRINUSE" ->
                Error(<<"Port ", TemplateString(port), " is already in use">>)
           [] OTHER -> error

\* resolve() / reject() of a promise: only a pending promise changes
Settle(promise, settled) == IF promise.state = "pending" THEN settled ELSE promise

\* if (!preventListen) await listen(): the executor calls server.listen(port)
\* and registers the 'error' and 'listening' handlers
ListenResolveAtOnce ==
    /\ pc = "listen"
    /\ IF options.preventListen
       THEN /\ pc' = "return"
            /\ UNCHANGED <<server, handlers, listenPromise, trace>>
       ELSE /\ server' = "Binding"
            /\ handlers' = TRUE
            /\ listenPromise' = Fulfilled(Undefined)
            /\ pc' = "awaitListen"
            /\ trace' = Append(trace, "listen")
    /\ UNCHANGED <<BootFrame, before, after, nestApp, outcome>>

ListenAlways ==
    /\ pc = "listen"
    /\ server' = "Binding"
    /\ handlers' = TRUE
    /\ pc' = "awaitListen"
    /\ trace' = Append(trace, "listen")
    /\ UNCHANGED <<BootFrame, listenPromise, before, after, nestApp, outcome>>

Listen ==
    /\ pc = "listen"
    /\ IF options.preventListen
       THEN /\ pc' = "return"
            /\ UNCHANGED <<server, handlers, trace>>
       ELSE /\ server' = "Binding"
            /\ handlers' = TRUE
            /\ pc' = "awaitListen"
            /\ trace' = Append(trace, "listen")
    /\ UNCHANGED <<BootFrame, listenPromise, before, after, nestApp, outcome>>

\* the server emits 'listening': onListening(); resolve()
ServerListening ==
    /\ server = "Binding"
    /\ server' = "Listening"
    /\ listenPromise' = IF handlers THEN Settle(listenPromise, Fulfilled(Undefined))
                        ELSE listenPromise
    /\ trace' = Append(trace, "listening")
    /\ UNCHANGED <<BootFrame, pc, handlers, before, after, nestApp, outcome>>

\* the server emits 'error': reject(analyzeError(error))
ServerError ==
    /\ server \in {"Binding", "Listening"}
    /\ Len(errors) < MaxErrors
    /\ \E syscall \in Syscalls, code \in Codes :
         LET error == ErrnoException(syscall, code, Len(errors) + 1) IN
         /\ errors' = Append(errors, error)
         /\ listenPromise' =
                IF handlers
                THEN Settle(listenPromise, Rejected(analyzeError(error, options.port)))
                ELSE listenPromise
    /\ server' = IF server = "Binding" THEN "Failed" ELSE server
    /\ trace' = Append(trace, "error")
    /\ UNCHANGED <<supplied, options, envPORT, stack, controllers,
                   nestAppModule, req, nreq, pc, handlers, before, after,
                   nestApp, outcome, logVars>>

\* await listen() resumes, or rethrows the rejection
AwaitListen ==
    /\ pc = "awaitListen"
    /\ listenPromise.state # "pending"
    /\ IF listenPromise.state = "fulfilled"
       THEN pc' = "return" /\ UNCHANGED outcome
       ELSE pc' = "done" /\ outcome' = Rejected(listenPromise.value)
    /\ UNCHANGED <<BootFrame, server, handlers, listenPromise, before, after,
                   nestApp, trace>>

\* return { app: expressApp, server }
Return ==
    /\ pc = "return"
    /\ outcome' = Fulfilled([app |-> "expressApp", server |-> "server"])
    /\ pc' = "done"
    /\ trace' = Append(trace, "return")
    /\ UNCHANGED <<BootFrame, server, handlers, listenPromise, before, after,
                   nestApp>>

(* -------------------------------------------------------------- requests *)
\* a connection is accepted by the listening server
RequestArrives ==
    /\ server = "Listening"
    /\ req.state # "running"
    /\ nreq < MaxRequests
    /\ req' = [state |-> "running", pos |-> 1, ran |-> <<>>]
    /\ nreq' = nreq + 1
    /\ UNCHANGED <<supplied, options, envPORT, pc, stack, controllers,
                   nestAppModule, server, handlers, listenPromise, before,
                   after, nestApp, outcome, trace, errors, logVars>>

\* express runs the next middleware of the stack; it calls next() or fails;
\* past the last middleware the request reaches the routes
RequestStep ==
    /\ req.state = "running"
    /\ IF req.pos <= Len(stack)
       THEN \E ok \in BOOLEAN :
              req' = [state |-> IF ok THEN "running" ELSE "failed",
                      pos |-> req.pos + 1,
                      ran |-> Append(req.ran, stack[req.pos])]
       ELSE req' = [req EXCEPT !.state = "dispatched",
                               !.ran = Append(req.ran, "dispatch")]
    /\ UNCHANGED <<supplied, options, envPORT, pc, stack, controllers,
                   nestAppModule, server, handlers, listenPromise, before,
                   after, nestApp, outcome, trace, errors, nreq, logVars>>

(* ------------------------------------------------------- numbers as text *)
DigitChars == <<"0", "1", "2", "3", "4", "5", "6", "7", "8", "9">>
IsDigit(c) == \E d \in 1..10 : DigitChars[d] = c
DigitOf(c) == (CHOOSE d \in 1..10 : DigitChars[d] = c) - 1

RECURSIVE Pow10(_)
Pow10(k) == IF k = 0 THEN 1 ELSE 10 * Pow10(k - 1)

\* the decimal digits of a natural number
RECURSIVE NatChars(_)
NatChars(k) ==
    IF k < 10 THEN <<DigitChars[k + 1]>>
    ELSE Append(NatChars(k \div 10), DigitChars[(k % 10) + 1])

\* the number a list of digits writes
RECURSIVE NatOf(_)
NatOf(c) ==
    IF c = <<>> THEN 0
    ELSE 10 * NatOf(SubSeq(c, 1, Len(c) - 1)) + DigitOf(c[Len(c)])

\* the digits of k, zero-padded on the left to the given width
RECURSIVE PadLeft(_, _)
PadLeft(c, width) == IF Len(c) >= width THEN c ELSE PadLeft(<<"0">> \o c, width)

\* length of the longest prefix of digits
RECURSIVE DigitPrefix(_)
DigitPrefix(c) ==
    IF c = <<>> \/ ~IsDigit(Head(c)) THEN 0 ELSE 1 + DigitPrefix(Tail(c))

\* Number.parseFloat: the longest decimal prefix of the text, NaN without one
parseFloat(v) ==
    IF v.type # "string" THEN LNaN
    ELSE LET ni == DigitPrefix(v.c)
             rest == SubSeq(v.c, ni + 1, Len(v.c))
             nf == IF rest # <<>> /\ Head(rest) = "." THEN DigitPrefix(Tail(rest))
                   ELSE 0
         IN IF ni + nf = 0 THEN LNaN
            ELSE LNumber(NatOf(SubSeq(v.c, 1, ni) \o SubSeq(rest, 2, nf + 1)), nf)

\* x / 1000
Div1000(x) == IF x.type # "number" THEN LNaN ELSE LNumber(x.num, x.exp + 3)

\* x.toFixed(digits): rounded to that many decimals, zero-padded
toFixed(x, digits) ==
    IF x.type # "number" THEN <<"N", "a", "N">>
    ELSE LET scaled == IF x.exp <= digits THEN x.num * Pow10(digits - x.exp)
                       ELSE (x.num + 5 * Pow10(x.exp - digits - 1))
                                \div Pow10(x.exp - digits)
         IN IF digits = 0 THEN NatChars(scaled)
            ELSE NatChars(scaled \div Pow10(digits)) \o <<".">>
                   \o PadLeft(NatChars(scaled % Pow10(digits)), digits)

\* string concatenation of a value: '' + v
StringOf(v) ==
    CASE v.type = "string" -> v.c
      [] v.type = "undefined" -> <<"u", "n", "d", "e", "f", "i", "n", "e", "d">>
      [] v.type = "null" -> <<"n", "u", "l", "l">>
      [] v.type = "NaN" -> <<"N", "a", "N">>
      [] v.type = "boolean" -> <<"t", "r", "u", "e">>
      [] v.type = "number" -> toFixed(v, v.exp)
      [] OTHER -> <<"[", "o", "b", "j", "e", "c", "t", " ", "O", "b", "j", "e", "c", "t", "]">>

(* ------------------------------------------------------------------ JSON *)
kMethod == <<"m", "e", "t", "h", "o", "d">>
kRequestId == <<"r", "e", "q", "u", "e", "s", "t", "-", "i", "d">>
kPath == <<"p", "a", "t", "h">>
kStatus == <<"s", "t", "a", "t", "u", "s">>
kDuration == <<"d", "u", "r", "a", "t", "i", "o", "n">>
kResponseTime == <<"r", "e", "s", "p", "o", "n", "s", "e", "-", "t", "i", "m", "e">>
kContentLength == <<"c", "o", "n", "t", "e", "n", "t", "-", "l", "e", "n", "g", "t", "h">>
kDurationMs == <<"d", "u", "r", "a", "t", "i", "o", "n", "M", "s">>
kError == <<"e", "r", "r", "o", "r">>

Pair(key, value) == [key |-> key, value |-> value]

\* obj[key]: the value of the last property of that name, undefined without one
Get(v, key) ==
    IF v.type = "object" /\ \E k \in 1..Len(v.pairs) : v.pairs[k].key = key
    THEN v.pairs[CHOOSE k \in 1..Len(v.pairs) :
                    /\ v.pairs[k].key = key
                    /\ \A m \in (k + 1)..Len(v.pairs) : v.pairs[m].key # key].value
    ELSE LUndefined

\* { ...pairs, key: value }
SetKey(pairs, key, value) ==
    IF \E k \in 1..Len(pairs) : pairs[k].key = key
    THEN [k \in 1..Len(pairs) |->
            IF pairs[k].key = key THEN Pair(key, value) ELSE pairs[k]]
    ELSE Append(pairs, Pair(key, value))

\* the literal JSON.stringify writes for a property value
ValueToken(v) ==
    CASE v.type = "string" -> Token("string", v.c)
      [] v.type = "number" -> Token("number", toFixed(v, v.exp))
      [] v.type = "boolean" -> Token("true", <<"t", "r", "u", "e">>)
      [] OTHER -> Token("null", <<"n", "u", "l", "l">>)

\* JSON.stringify of an object of scalars: properties whose value is
\* undefined are left out
RECURSIVE Members(_)
Members(pairs) ==
    IF pairs = <<>> THEN <<>>
    ELSE LET rest == Members(Tail(pairs))
             p == Head(pairs)
         IN IF p.value.type = "undefined" THEN rest
            ELSE <<Token("string", p.key), Punct(":"), ValueToken(p.value)>>
                   \o (IF rest = <<>> THEN <<>> ELSE <<Punct(",")>> \o rest)

JSONstringify(obj) == <<Punct("{")>> \o Members(obj.pairs) \o <<Punct("}")>>

IsScalarToken(t) == t.k \in {"string", "number", "null", "true"}

ScalarOf(t) ==
    CASE t.k = "string" -> LStr(t.v)
      [] t.k = "number" -> parseFloat(LStr(t.v))
      [] t.k = "true" -> LTrue
      [] OTHER -> LNull

NotNewline(t) == t.k # "nl"

\* the members between the braces: string ":" scalar, separated by ","
MembersWellFormed(inner) ==
    \/ inner = <<>>
    \/ /\ Len(inner) % 4 = 3
       /\ \A k \in 1..Len(inner) :
            CASE k % 4 = 1 -> inner[k].k = "string"
              [] k % 4 = 2 -> inner[k] = Punct(":")
              [] k % 4 = 3 -> IsScalarToken(inner[k])
              [] OTHER -> inner[k] = Punct(",")

\* JSON.parse of a text whose values are scalars or one object of scalars;
\* newlines around the tokens are white space; anything else is a SyntaxError
JSONparse(text) ==
    LET toks == SelectSeq(text, NotNewline)
        inner == SubSeq(toks, 2, Len(toks) - 1)
    IN IF Len(toks) = 1 /\ IsScalarToken(toks[1])
       THEN [ok |-> TRUE, value |-> ScalarOf(toks[1])]
       ELSE IF /\ Len(toks) >= 2
               /\ toks[1] = Punct("{")
               /\ toks[Len(toks)] = Punct("}")
               /\ MembersWellFormed(inner)
       THEN [ok |-> TRUE,
             value |-> LObject([k \in 1..((Len(inner) + 1) \div 4) |->
                                   Pair(inner[4 * k - 3].v, ScalarOf(inner[4 * k - 1]))])]
       ELSE [ok |-> FALSE, value |-> LUndefined]

\* { ...v }: the own enumerable properties of a value
Spread(v) ==
    CASE v.type = "object" -> v.pairs
      [] v.type = "string" ->
           [k \in 1..Len(v.c) |-> Pair(NatChars(k - 1), LStr(<<v.c[k]>>))]
      [] OTHER -> <<>>

(* ----------------------------------------------------- request logging *)
\* the default format function of options.http.logLevel
DefaultFormatterFixed3(t, inJSON, withRequestId) ==
    IF inJSON
    THEN JSONstringify(LObject(<<
           Pair(kMethod, t.method),
           Pair(kRequestId, IF withRequestId
                            THEN LStr(<<"(">> \o StringOf(t.requestId) \o <<")">>)
                            ELSE LStr(<<>>)),
           Pair(kPath, t.url),
           Pair(kStatus, t.status),
           Pair(kDuration, LStr(toFixed(Div1000(parseFloat(t.responseTime)), 3))),
           Pair(kResponseTime, t.responseTime),
           Pair(kContentLength, t.contentLength)>>))
    ELSE <<Text(IF t.method.type = "undefined" THEN <<>> ELSE t.method.c), Text(<<" ">>),
           Text(IF t.url.type = "undefined" THEN <<>> ELSE t.url.c), Text(<<" ">>),
           Text(IF t.status.type = "undefined" THEN <<>> ELSE t.status.c), Text(<<" ">>),
           Text(IF t.responseTime.type = "undefined" THEN <<>> ELSE t.responseTime.c),
           Text(<<" ">>), Text(<<"m", "s", " ", "-", " ">>), Text(<<" ">>),
           Text(IF t.contentLength.type = "undefined" THEN <<>> ELSE t.contentLength.c)>>

DefaultFormatter(t, inJSON, withRequestId) ==
    IF inJSON
    THEN JSONstringify(LObject(<<
           Pair(kMethod, t.method),
           Pair(kRequestId, IF withRequestId
                            THEN LStr(<<"(">> \o StringOf(t.requestId) \o <<")">>)
                            ELSE LStr(<<>>)),
           Pair(kPath, t.url),
           Pair(kStatus, t.status),
           Pair(kDuration, LStr(toFixed(Div1000(parseFloat(t.responseTime)), 6))),
           Pair(kResponseTime, t.responseTime),
           Pair(kContentLength, t.contentLength)>>))
    ELSE <<Text(IF t.method.type = "undefined" THEN <<>> ELSE t.method.c), Text(<<" ">>),
           Text(IF t.url.type = "undefined" THEN <<>> ELSE t.url.c), Text(<<" ">>),
           Text(IF t.status.type = "undefined" THEN <<>> ELSE t.status.c), Text(<<" ">>),
           Text(IF t.responseTime.type = "undefined" THEN <<>> ELSE t.responseTime.c),
           Text(<<" ">>), Text(<<"m", "s", " ", "-", " ">>), Text(<<" ">>),
           Text(IF t.contentLength.type = "undefined" THEN <<>> ELSE t.contentLength.c)>>

\* message.replace('\n', ''): the first newline is removed
ReplaceNewline(text) ==
    IF \E k \in 1..Len(text) : text[k] = NL
    THEN LET first == CHOOSE k \in 1..Len(text) :
                         text[k] = NL /\ \A m \in 1..(k - 1) : text[m] # NL
         IN SubSeq(text, 1, first - 1) \o SubSeq(text, first + 1, Len(text))
    ELSE text

InfoCall(message, meta) == [message |-> message, meta |-> meta]
NoMeta == LUndefined
TypeError == LStr(<<"T", "y", "p", "e", "E", "r", "r", "o", "r">>)
SyntaxError == LStr(<<"S", "y", "n", "t", "a", "x", "E", "r", "r", "o", "r">>)

\* stream.write(message): the call of options.log.info it makes
WriteNoSpread(message, inJSON) ==
    IF inJSON
    THEN LET parsed == JSONparse(message) IN
         IF parsed.ok /\ parsed.value.type # "null"
         THEN InfoCall(<<Text(<<"a", "p", "i", " ", "c", "a", "l", "l", " ">> \o StringOf(Get(parsed.value, kPath)))>>,
                       LObject(<<Pair(kDurationMs,
                                      parseFloat(Get(parsed.value, kResponseTime)))>>))
         ELSE InfoCall(ReplaceNewline(message),
                       LObject(<<Pair(kError, IF parsed.ok THEN TypeError
                                              ELSE SyntaxError)>>))
    ELSE InfoCall(ReplaceNewline(message), NoMeta)

Write(message, inJSON) ==
    IF inJSON
    THEN LET parsed == JSONparse(message) IN
         IF parsed.ok /\ parsed.value.type # "null"
         THEN InfoCall(<<Text(<<"a", "p", "i", " ", "c", "a", "l", "l", " ">> \o StringOf(Get(parsed.value, kPath)))>>,
                       LObject(SetKey(Spread(parsed.value), kDurationMs,
                                      parseFloat(Get(parsed.value, kResponseTime)))))
         ELSE InfoCall(ReplaceNewline(message),
                       LObject(<<Pair(kError, IF parsed.ok THEN TypeError
                                              ELSE SyntaxError)>>))
    ELSE InfoCall(ReplaceNewline(message), NoMeta)

BootVars == <<supplied, options, envPORT, pc, stack, controllers, nestAppModule,
              server, handlers, listenPromise, before, after, nestApp, outcome,
              trace, errors>>

\* a request that passed the morgan middleware has finished: morgan calls the
\* format function and keeps the line, with a newline appended, for the stream
MorganFormat ==
    /\ req.state \in {"dispatched", "failed"}
    /\ \E k \in 1..Len(req.ran) : req.ran[k] = "morgan"
    /\ nlog < nreq
    /\ logPc \in {"idle", "written"}
    /\ \E t \in TokenInputs :
         /\ tok' = t
         /\ IF options.logLevel = DefaultLogLevel
            THEN /\ line' = DefaultFormatter(t, formatLogInJSON, enableRequestId)
                               \o <<NL>>
                 /\ reads' = <<formatLogInJSON>>
            ELSE /\ \E raw \in RawLines : line' = raw \o <<NL>>
                 /\ reads' = <<>>
    /\ logPc' = "formatted"
    /\ nlog' = nlog + 1
    /\ UNCHANGED <<BootVars, req, nreq, formatLogInJSON, enableRequestId, info>>

\* stream.write(message)
StreamWriteResetsFlag ==
    /\ logPc = "formatted"
    /\ info' = Append(info, Write(line, formatLogInJSON))
    /\ reads' = Append(reads, formatLogInJSON)
    /\ formatLogInJSON' = (formatLogInJSON /\ JSONparse(line).ok)
    /\ logPc' = "written"
    /\ UNCHANGED <<BootVars, req, nreq, enableRequestId, tok, line, nlog>>

StreamWrite ==
    /\ logPc = "formatted"
    /\ info' = Append(info, Write(line, formatLogInJSON))
    /\ reads' = Append(reads, formatLogInJSON)
    /\ logPc' = "written"
    /\ UNCHANGED <<BootVars, req, nreq, formatLogInJSON, enableRequestId, tok,
                   line, nlog>>

\* the flag as the caller of startExpressApp set it before the bootstrap
FlagAtStartup == formatLogInJSON \in BOOLEAN

\* the state a bootstrap without hooks leaves once the server listens
Bootstrapped ==
    /\ supplied \in {[port |-> Undefined, logLevel |-> l, validation |-> Undefined,
                      preventListen |-> FALSE,
                      beforeRoutingControllerLaunchHook |-> FALSE,
                      afterRoutingControllerLaunchHook |-> FALSE] :
                        l \in {Undefined, Fn("custom")}}
    /\ options = [supplied EXCEPT
                    !.port = ResolvePort(supplied.port, Undefined),
                    !.logLevel = ResolveLogLevel(supplied.logLevel),
                    !.validation = DefaultValidation]
    /\ envPORT = Undefined
    /\ pc = "done"
    /\ stack = MiddlewareStack(options.logLevel)
    /\ controllers = <<"A">>
    /\ nestAppModule = AppModule(<<"A">>)
    /\ server = "Listening"
    /\ handlers = TRUE
    /\ listenPromise = Fulfilled(Undefined)
    /\ before = Idle
    /\ after = Idle
    /\ nestApp = "initialized"
    /\ outcome = Fulfilled([app |-> "expressApp", server |-> "server"])
    /\ trace = <<"defaults", "middleware", "module", "routes", "createServer",
                 "nestCreate", "nestCreated", "useGlobalFilters",
                 "useGlobalPipes", "nestInit", "nestInitDone", "listen",
                 "listening", "return">>
    /\ errors = <<>>

LogInit ==
    /\ Bootstrapped
    /\ req = NoRequest
    /\ nreq = 0
    /\ FlagAtStartup
    /\ enableRequestId \in BOOLEAN
    /\ tok = NoTokens
    /\ line = <<>>
    /\ info = <<>>
    /\ reads = <<>>
    /\ logPc = "idle"
    /\ nlog = 0

LogNext ==
    \/ RequestArrives
    \/ RequestStep
    \/ MorganFormat
    \/ StreamWrite

LogSpec == LogInit /\ [][LogNext]_vars

Next ==
    \/ DefaultOptions
    \/ InstallMiddleware
    \/ CreateNestAppModule
    \/ BindSpecificRoutes
    \/ CreateServer
    \/ CallBeforeHook
    \/ BeforeHookSettles
    \/ AwaitBeforeHook
    \/ NestFactoryCreate
    \/ ConfigureNestApp
    \/ NestInitialized
    \/ CallAfterHook
    \/ AfterHookSettles
    \/ AwaitAfterHook
    \/ Listen
    \/ ServerListening
    \/ ServerError
    \/ AwaitListen
    \/ Return
    \/ RequestArrives
    \/ RequestStep

Spec == Init /\ [][Next]_vars

(* ------------------------------------------------------ reading the trace *)
Occurs(e) == \E k \in 1..Len(trace) : trace[k] = e
Count(e) == Cardinality({k \in 1..Len(trace) : trace[k] = e})
\* every occurrence of b has an occurrence of a before it
Precedes(a, b) ==
    \A k \in 1..Len(trace) : trace[k] = b => \E m \in 1..(k - 1) : trace[m] = a

\* names occurring more than once in a list of controllers
MoreThanOnce(cs) ==
    {nm \in ControllerNames : Cardinality({k \in 1..Len(cs) : cs[k] = nm}) > 1}

ModulePassed == Occurs("module") \/ Occurs("throwDuplicated")

(* --------------------------------------------------------------- claims *)
\* C1: whenever the discovered controllers hold a name more than once,
\* createNestAppModule throws N9Error 'duplicated-controller', status 400,
\* whose controllerDuplicatedNames lists exactly the names occurring more
\* than once, each once.
C1_DuplicatesReported ==
    MoreThanOnce(controllers) # {} =>
        /\ outcome.state = "rejected"
        /\ outcome.value.kind = "N9Error"
        /\ outcome.value.message = <<"duplicated-controller">>
        /\ outcome.value.status = 400
        /\ LET list == outcome.value.controllerDuplicatedNames IN
           /\ {list[k] : k \in 1..Len(list)} = MoreThanOnce(controllers)
           /\ \A k, m \in 1..Len(list) : list[k] = list[m] => k = m
        /\ ~nestAppModule.defined

C1_Witness ==
    /\ controllers = <<"A", "B", "A">>
    /\ outcome.state = "rejected"
    /\ outcome.value.controllerDuplicatedNames = <<"A">>

\* C2: whenever the discovered controllers have pairwise distinct names,
\* createNestAppModule does not throw and the module registers exactly the
\* discovered controllers, same count and same order.
C2_DistinctRegistered ==
    (ModulePassed /\ MoreThanOnce(controllers) = {}) =>
        /\ ~Occurs("throwDuplicated")
        /\ nestAppModule.defined
        /\ Len(nestAppModule.controllers) = Len(controllers)
        /\ nestAppModule.controllers = controllers

C2_Witness ==
    /\ controllers = <<"B", "A">>
    /\ nestAppModule.defined
    /\ nestAppModule.controllers = <<"B", "A">>

\* the steps of a bootstrap run: the events that start and end each, and
\* whether every run that goes on must have taken it
Registry == [starts |-> {"module", "throwDuplicated"},
             ends |-> {"module", "throwDuplicated"}, must |-> TRUE]
Pipeline == [starts |-> {"middleware"}, ends |-> {"middleware"}, must |-> TRUE]
PreInit == [starts |-> {"beforeHookStart"}, ends |-> {"beforeHookEnd"},
            must |-> options.beforeRoutingControllerLaunchHook]
Engine == [starts |-> {"nestCreate"}, ends |-> {"nestInitDone"}, must |-> TRUE]
PostInit == [starts |-> {"afterHookStart"}, ends |-> {"afterHookEnd"},
             must |-> options.afterRoutingControllerLaunchHook]
ListenStep == [starts |-> {"listen"}, ends |-> {"listen"}, must |-> TRUE]

\* each step of the order starts only after every earlier step has completed
StepsInOrder(order) ==
    \A i, j \in 1..Len(order) : i < j =>
        \A k \in 1..Len(trace) : trace[k] \in order[j].starts =>
            /\ \A m \in k..Len(trace) :
                 trace[m] \notin (order[i].starts \cup order[i].ends)
            /\ (order[i].must \/ \E m \in 1..(k - 1) : trace[m] \in order[i].starts)
                 => \E m \in 1..(k - 1) : trace[m] \in order[i].ends

\* C3 as stated: registry construction, then middleware assembly, then the
\* pre-init hook, engine creation and initialization, post-init hook, listen.
C3_Original ==
    StepsInOrder(<<Registry, Pipeline, PreInit, Engine, PostInit, ListenStep>>)

\* C3 amended: middleware assembly comes first, then registry construction,
\* then the pre-init hook, engine creation and initialization, the post-init
\* hook, then listen; each step starts only after the previous one completed.
C3_PipelineThenRegistry ==
    StepsInOrder(<<Pipeline, Registry, PreInit, Engine, PostInit, ListenStep>>)

C3_Witness ==
    /\ options.beforeRoutingControllerLaunchHook
    /\ options.afterRoutingControllerLaunchHook
    /\ Occurs("listen")
    /\ outcome.state = "fulfilled"
    /\ trace[2] = "middleware"
    /\ trace[3] = "module"

\* position of a step in the list of steps a request ran, 0 if it did not run
Ran(step) ==
    IF \E k \in 1..Len(req.ran) : req.ran[k] = step
    THEN CHOOSE k \in 1..Len(req.ran) : req.ran[k] = step
    ELSE 0

\* C4: the middleware is installed in the order setRequestContext, helmet,
\* session resolution, request logging; every request runs the steps in that
\* order, so correlation context precedes logging and session resolution
\* precedes dispatch, and a failing step stops the later steps and dispatch.
C4_InstalledOrder ==
    /\ Occurs("middleware") =>
         /\ SubSeq(stack, 1, 3) =
              <<"setRequestContext", "helmet", "SessionLoaderInterceptor">>
         /\ stack \in {<<"setRequestContext", "helmet", "SessionLoaderInterceptor">>,
                       <<"setRequestContext", "helmet", "SessionLoaderInterceptor",
                         "morgan">>}
    /\ req.state # "none" =>
         /\ Ran("morgan") > 0 =>
              Ran("setRequestContext") > 0 /\ Ran("setRequestContext") < Ran("morgan")
         /\ Ran("dispatch") > 0 =>
              /\ Ran("SessionLoaderInterceptor") > 0
              /\ Ran("SessionLoaderInterceptor") < Ran("dispatch")
              /\ req.ran = stack \o <<"dispatch">>
         /\ req.state = "failed" =>
              /\ Ran("dispatch") = 0
              /\ req.ran = SubSeq(stack, 1, Len(req.ran))
              /\ req.pos = Len(req.ran) + 1

C4_RequestOrder ==
    /\ []C4_InstalledOrder
    /\ [][req.state = "failed" => (req' = req \/ req'.ran = <<>>)]_vars

C4_Witness ==
    /\ req.state = "dispatched"
    /\ req.ran = <<"setRequestContext", "helmet", "SessionLoaderInterceptor",
                   "morgan", "dispatch">>

\* C5 as stated: the logging step is installed only if the caller supplied a
\* truthy log-format option; with none supplied, or a falsy one, no logging
\* step is installed and no request is logged.
C5_Original ==
    Occurs("middleware") =>
        /\ (\E k \in 1..Len(stack) : stack[k] = "morgan") => Truthy(supplied.logLevel)
        /\ ~Truthy(supplied.logLevel) => Ran("morgan") = 0

\* C5 amended: the logging step is installed exactly when options.http.logLevel
\* is truthy after default filling, that is when the caller supplied no
\* log-format option (the default formatter is filled in) or a truthy one;
\* when the caller supplied a defined falsy option no logging step is
\* installed and no request runs one.
C5_LoggingIffResolvedTruthy ==
    Occurs("middleware") =>
        /\ (\E k \in 1..Len(stack) : stack[k] = "morgan")
              <=> (supplied.logLevel.type = "undefined" \/ Truthy(supplied.logLevel))
        /\ (supplied.logLevel.type # "undefined" /\ ~Truthy(supplied.logLevel))
              => Ran("morgan") = 0
        /\ supplied.logLevel.type = "undefined" => options.logLevel = DefaultLogLevel

C5_Witness ==
    /\ supplied.logLevel = Undefined
    /\ req.state = "dispatched"
    /\ Ran("morgan") = 4

\* C6: with both hooks supplied, a bootstrap that reaches its end has called
\* each hook exactly once; the pre-init hook has completed before engine
\* creation starts, the post-init hook starts only after init() completed and
\* has completed before listen; the hooks never run at the same time.
C6_HooksOnceInOrder ==
    (options.beforeRoutingControllerLaunchHook
       /\ options.afterRoutingControllerLaunchHook) =>
        /\ (pc = "done" /\ outcome.state = "fulfilled") =>
              /\ Count("beforeHookStart") = 1
              /\ Count("afterHookStart") = 1
              /\ Count("beforeHookEnd") = 1
              /\ Count("afterHookEnd") = 1
        /\ Count("beforeHookStart") <= 1
        /\ Count("afterHookStart") <= 1
        /\ Precedes("beforeHookEnd", "nestCreate")
        /\ Occurs("nestCreate") => before.state = "done"
        /\ Precedes("nestInitDone", "afterHookStart")
        /\ Precedes("afterHookEnd", "listen")
        /\ Occurs("listen") => after.state = "done"
        /\ (pc = "return" \/ outcome.state = "fulfilled") => after.state = "done"
        /\ Precedes("beforeHookEnd", "afterHookStart")
        /\ ~(before.state = "running" /\ after.state = "running")

C6_Witness ==
    /\ options.beforeRoutingControllerLaunchHook
    /\ options.afterRoutingControllerLaunchHook
    /\ pc = "done"
    /\ outcome.state = "fulfilled"
    /\ Occurs("listen")
    /\ Count("beforeHookStart") = 1
    /\ Count("afterHookStart") = 1

\* C7: a failing hook rejects the bootstrap with the hook's own error and
\* stops it: after a pre-init failure no engine, no post-init hook, no listen;
\* after a post-init failure no listen; never a fulfilled {app, server}.
C7_HookFailureAborts ==
    /\ before.state = "failed" =>
         /\ pc \in {"awaitBefore", "done"}
         /\ pc = "done" => outcome = Rejected(before.error)
         /\ outcome.state # "fulfilled"
         /\ nestApp = "none"
         /\ ~Occurs("nestCreate")
         /\ after.state = "idle"
         /\ ~Occurs("listen")
         /\ server = "Unbound"
    /\ after.state = "failed" =>
         /\ pc \in {"awaitAfter", "done"}
         /\ pc = "done" => outcome = Rejected(after.error)
         /\ outcome.state # "fulfilled"
         /\ ~Occurs("listen")
         /\ server = "Unbound"

C7_Witness ==
    /\ before.state = "failed"
    /\ Occurs("beforeHookStart")
    /\ pc = "done"
    /\ outcome = Rejected([kind |-> "HookError", message |-> <<"denied">>])

\* C8: when listening is not prevented, the bootstrap is fulfilled with
\* {app, server} only after 'listening', and rejected with the translated
\* error when the bind fails first; the outcome is delivered once and never
\* changes, Listening and Failed are never left, and a rejected bootstrap
\* never has a listening server.
C8_ListenOutcomeState ==
    ~options.preventListen =>
        /\ outcome.state = "fulfilled" =>
              /\ outcome.value = [app |-> "expressApp", server |-> "server"]
              /\ server = "Listening"
              /\ Precedes("listening", "return")
              /\ listenPromise.state = "fulfilled"
        /\ (server = "Failed" /\ pc = "done") =>
              /\ outcome.state = "rejected"
              /\ outcome.value = listenPromise.value
              /\ errors[1].syscall = "listen" /\ errors[1].code \in {"EACCES", "EADDRINUSE"}
                   => outcome.value.kind = "Error"
        /\ server = "Failed" =>
              /\ outcome.state # "fulfilled"
              /\ listenPromise.state = "rejected"
        /\ outcome.state = "rejected" => server # "Listening"
        /\ Count("return") <= 1

C8_ListenOutcome ==
    /\ []C8_ListenOutcomeState
    /\ [][(outcome.state # "pending") => (outcome' = outcome)]_vars
    /\ [][(listenPromise.state # "pending") => (listenPromise' = listenPromise)]_vars
    /\ [][(server \in {"Listening", "Failed"}) => (server' = server)]_vars

C8_Witness ==
    /\ ~options.preventListen
    /\ outcome.state = "fulfilled"
    /\ server = "Listening"
    /\ Len(errors) = 1
    /\ trace[Len(trace)] = "error"

\* the text of the port the run listens on: the explicit port when one is
\* configured (and not 0), else the PORT variable, else 5000
PortText ==
    IF supplied.port.type = "number" /\ supplied.port.n # 0
    THEN ToString(supplied.port.n)
    ELSE IF envPORT.type = "string" /\ envPORT.s # "" THEN envPORT.s
    ELSE "5000"

\* C9: a bind failure of syscall 'listen' with code EACCES rejects with a new
\* error "Port <port> requires elevated privileges", with code EADDRINUSE with
\* a new error "Port <port> is already in use", <port> being the resolved
\* options.http.port of the run.
C9_FriendlyListenErrors ==
    (server = "Failed" /\ errors[1].syscall = "listen") =>
        /\ errors[1].code = "EACCES" =>
              /\ listenPromise = Rejected([kind |-> "Error", message |->
                    <<"Port ", PortText, " requires elevated privileges">>])
              /\ pc = "done" => outcome = listenPromise
        /\ errors[1].code = "EADDRINUSE" =>
              /\ listenPromise = Rejected([kind |-> "Error", message |->
                    <<"Port ", PortText, " is already in use">>])
              /\ pc = "done" => outcome = listenPromise
        /\ (supplied.port = Num(80) /\ errors[1].code \in {"EACCES", "EADDRINUSE"}) =>
              listenPromise.value.message[2] = "80"

C9_Witness ==
    /\ server = "Failed"
    /\ supplied.port = Num(80)
    /\ errors[1].syscall = "listen"
    /\ errors[1].code = "EACCES"
    /\ pc = "done"
    /\ outcome.value.message = <<"Port ", "80", " requires elevated privileges">>

\* C10: an error whose syscall is not 'listen' (whatever its code), or a
\* 'listen' error whose code is neither EACCES nor EADDRINUSE, is returned by
\* analyzeError as it is, and the bootstrap rejects with that very error.
C10_OtherErrorsUnchanged ==
    (server = "Failed"
       /\ (errors[1].syscall # "listen"
             \/ errors[1].code \notin {"EACCES", "EADDRINUSE"})) =>
        /\ listenPromise = Rejected(errors[1])
        /\ pc = "done" => outcome = Rejected(errors[1])

C10_Witness ==
    /\ server = "Failed"
    /\ errors[1].syscall = "getaddrinfo"
    /\ errors[1].code = "EADDRINUSE"
    /\ pc = "done"
    /\ outcome = Rejected(errors[1])

\* C11: with preventListen set the bootstrap never calls server.listen and
\* registers no listen handlers; it returns {app, server} with the server
\* unbound, and never rejects with a listen error.
C11_PreventListen ==
    (options.preventListen /\ Occurs("createServer")) =>
        /\ ~Occurs("listen")
        /\ ~handlers
        /\ server = "Unbound"
        /\ errors = <<>>
        /\ listenPromise = Pending
        /\ outcome.state = "fulfilled" =>
              outcome.value = [app |-> "expressApp", server |-> "server"]
        /\ outcome.state = "rejected" =>
              /\ outcome.value.kind = "HookError"
              /\ before.state = "failed" \/ after.state = "failed"
        /\ pc = "done" =>
              (outcome.state = "fulfilled"
                 <=> (before.state # "failed" /\ after.state # "failed"))

C11_Witness ==
    /\ options.preventListen
    /\ pc = "done"
    /\ outcome = Fulfilled([app |-> "expressApp", server |-> "server"])
    /\ server = "Unbound"
    /\ ~handlers

\* C12: when discovery finds duplicated names the bootstrap rejects with the
\* duplicated-controller error before any network resource is touched: no
\* http server is created, listen is never called, no hook runs and the
\* dispatch engine is never created.
C12_DuplicatesBeforeNetwork ==
    MoreThanOnce(controllers) # {} =>
        /\ pc = "done"
        /\ outcome.state = "rejected"
        /\ outcome.value.kind = "N9Error"
        /\ outcome.value.message = <<"duplicated-controller">>
        /\ server = "none"
        /\ ~Occurs("createServer")
        /\ ~Occurs("listen")
        /\ ~handlers
        /\ before = Idle
        /\ after = Idle
        /\ nestApp = "none"
        /\ ~Occurs("nestCreate")
        /\ req = NoRequest

C12_Witness ==
    /\ controllers = <<"C", "C">>
    /\ pc = "done"
    /\ outcome.state = "rejected"
    /\ server = "none"
    /\ trace = <<"defaults", "middleware", "throwDuplicated">>

\* C19: AllErrorsFilter is installed on the Nest application before init()
\* is called and before server.listen is called or the server is returned;
\* no request is served while the filter is not installed.
C19_FilterBeforeInitAndListen ==
    /\ Precedes("useGlobalFilters", "nestInit")
    /\ Precedes("useGlobalFilters", "nestInitDone")
    /\ Precedes("useGlobalFilters", "listen")
    /\ Precedes("useGlobalFilters", "return")
    /\ Precedes("nestCreated", "useGlobalFilters")
    /\ nestApp \in {"initializing", "initialized"} => Occurs("useGlobalFilters")
    /\ server \in {"Binding", "Listening", "Failed"} => Occurs("useGlobalFilters")
    /\ req.state # "none" => Occurs("useGlobalFilters")

C19_Witness ==
    /\ req.state = "dispatched"
    /\ Occurs("useGlobalFilters")
    /\ Occurs("listen")
    /\ outcome.state = "fulfilled"

\* C15: the listen port is the explicitly configured port if one is
\* configured, whatever its value (0 included), else the PORT environment
\* variable if set, else 5000.
C15_PortResolution ==
    Occurs("defaults") =>
        options.port =
            IF supplied.port.type # "undefined" THEN supplied.port
            ELSE IF envPORT.type # "undefined" THEN envPORT
            ELSE Num(5000)

\* C16: default filling leaves every option the caller supplied (port,
\* log-format selector, validation configuration) as it was.
C16_SuppliedFieldsKept ==
    Occurs("defaults") =>
        /\ supplied.port.type # "undefined" => options.port = supplied.port
        /\ supplied.logLevel.type # "undefined" => options.logLevel = supplied.logLevel
        /\ supplied.validation.type # "undefined" =>
              options.validation = supplied.validation

\* the last call of options.log.info
LastInfo == info[Len(info)]

\* C13: in plain mode every line handed to the stream gives exactly one
\* logger.info call, without metadata, whose message is the line with every
\* newline removed and nothing else changed.
C13_PlainModeStripsNewlines ==
    (logPc = "written" /\ ~formatLogInJSON) =>
        /\ Len(info) = nlog
        /\ LastInfo.meta = NoMeta
        /\ LastInfo.message = SelectSeq(line, NotNewline)
        /\ \A k \in 1..Len(LastInfo.message) : LastInfo.message[k] # NL

\* C14: in structured mode a line that is not a well-formed structured
\* record (unparseable, or parsing to null or to a non-object) gives exactly
\* one logger.info call whose message is the line with its newline stripped
\* and whose metadata carries the parse error.
C14_MalformedLineFallsBack ==
    (logPc = "written" /\ formatLogInJSON
       /\ (~JSONparse(line).ok \/ JSONparse(line).value.type # "object")) =>
        /\ Len(info) = nlog
        /\ LastInfo.message = ReplaceNewline(line)
        /\ LastInfo.meta.type = "object"
        /\ Get(LastInfo.meta, kError).type # "undefined"

\* the response times of TokenInputs in microseconds
Micros(rt) ==
    CASE rt = LStr(<<"1", "5", ".", "2", "3", "4">>) -> 15234
      [] rt = LStr(<<"2", ".", "5">>) -> 2500
      [] rt = LStr(<<"7">>) -> 7000
      [] OTHER -> 0

\* C17: in structured mode, for a response time of t ms, 'duration' is
\* t/1000 written with exactly six decimals and 'durationMs' is the number t;
\* 15.234 gives "0.015234" and 15.234.
C17_DurationSixDecimals ==
    (logPc = "written" /\ formatLogInJSON /\ options.logLevel = DefaultLogLevel
       /\ tok.responseTime.type = "string") =>
        LET duration == Get(LastInfo.meta, kDuration)
            durationMs == Get(LastInfo.meta, kDurationMs)
            dot == Len(duration.c) - 6
        IN /\ duration.type = "string"
           /\ dot >= 2
           /\ duration.c[dot] = "."
           /\ \A k \in 1..Len(duration.c) : k # dot => IsDigit(duration.c[k])
           /\ NatOf(SubSeq(duration.c, 1, dot - 1)) * 1000000
                + NatOf(SubSeq(duration.c, dot + 1, Len(duration.c)))
                = Micros(tok.responseTime)
           /\ durationMs.type = "number"
           /\ durationMs.exp <= 3
           /\ durationMs.num * Pow10(3 - durationMs.exp) = Micros(tok.responseTime)
           /\ tok.responseTime = LStr(<<"1", "5", ".", "2", "3", "4">>) =>
                 /\ duration = LStr(<<"0", ".", "0", "1", "5", "2", "3", "4">>)
                 /\ durationMs = LNumber(15234, 3)

C17_Witness ==
    /\ logPc = "written"
    /\ formatLogInJSON
    /\ tok.responseTime = LStr(<<"1", "5", ".", "2", "3", "4">>)
    /\ Get(LastInfo.meta, kDuration) = LStr(<<"0", ".", "0", "1", "5", "2", "3", "4">>)
    /\ Get(LastInfo.meta, kDurationMs) = LNumber(15234, 3)

\* C18: the formatting flag is set before the listener accepts connections
\* and is only read afterwards: no logging step changes it, and the format
\* function and the stream writer of one request read the same value.
C18_ReadsAgree ==
    /\ \A k \in 1..Len(reads) : reads[k] = formatLogInJSON
    /\ (logPc = "written" /\ options.logLevel = DefaultLogLevel) =>
          (Len(reads) = 2 /\ reads[1] = reads[2])
    /\ nlog > 0 => server = "Listening"

C18_FlagOnlyRead ==
    /\ []C18_ReadsAgree
    /\ [][formatLogInJSON' = formatLogInJSON]_vars

C18_Witness ==
    /\ logPc = "written"
    /\ reads = <<TRUE, TRUE>>
    /\ LastInfo.meta.type = "object"

\* C20: in structured mode the line of the default formatter always parses;
\* the stream writer makes one logger.info call, 'api call ' and the path,
\* whose metadata reads every field as the formatter set it (method,
\* request-id, path, status, duration, response-time, content-length) and
\* has durationMs.
C20_FormatterRoundTrip ==
    (logPc = "written" /\ formatLogInJSON /\ options.logLevel = DefaultLogLevel) =>
        /\ JSONparse(line).ok
        /\ JSONparse(line).value.type = "object"
        /\ Len(info) = nlog
        /\ LastInfo.message = <<Text(<<"a", "p", "i", " ", "c", "a", "l", "l", " ">> \o tok.url.c)>>
        /\ LastInfo.meta.type = "object"
        /\ Get(LastInfo.meta, kError) = LUndefined
        /\ Get(LastInfo.meta, kMethod) = tok.method
        /\ Get(LastInfo.meta, kRequestId) =
              (IF ~enableRequestId THEN LStr(<<>>)
               ELSE IF tok.requestId.type = "string"
                    THEN LStr(<<"(">> \o tok.requestId.c \o <<")">>)
               ELSE LStr(<<"(", "u", "n", "d", "e", "f", "i", "n", "e", "d", ")">>))
        /\ Get(LastInfo.meta, kPath) = tok.url
        /\ Get(LastInfo.meta, kStatus) = tok.status
        /\ Get(LastInfo.meta, kDuration) =
              (IF tok.responseTime.type = "string"
               THEN LStr(toFixed(LNumber(Micros(tok.responseTime), 6), 6))
               ELSE LStr(<<"N", "a", "N">>))
        /\ Get(LastInfo.meta, kResponseTime) = tok.responseTime
        /\ Get(LastInfo.meta, kContentLength) = tok.contentLength
        /\ \E k \in 1..Len(LastInfo.meta.pairs) :
              LastInfo.meta.pairs[k].key = kDurationMs
        /\ \A k \in 1..Len(LastInfo.meta.pairs) :
              LastInfo.meta.pairs[k].key \in
                 {kMethod, kRequestId, kPath, kStatus, kDuration, kResponseTime,
                  kContentLength, kDurationMs}

C20_Witness ==
    /\ logPc = "written"
    /\ formatLogInJSON
    /\ enableRequestId
    /\ options.logLevel = DefaultLogLevel
    /\ tok.contentLength = LUndefined
    /\ tok.requestId = LStr(<<"r", "1">>)
    /\ LastInfo.message = <<Text(<<"a", "p", "i", " ", "c", "a", "l", "l", " ", "/", "x">>)>>
    /\ Get(LastInfo.meta, kRequestId) = LStr(<<"(", "r", "1", ")">>)
    /\ Len(LastInfo.meta.pairs) = 7

====
